---- MODULE Spec2Model ----
(***************************************************************************)
(* A model of Executable (path resolution, command-line fixup, spawn) and  *)
(* of the process-list parser of                                           *)
(* src/build-tests/heft-example-plugin-01/src/index.ts.                    *)
(*                                                                         *)
(* Strings are sequences of one-character strings, so that splitting,      *)
(* trimming, matching and number parsing are computed the way the code     *)
(* computes them.  An object reference to an IProcessInfo is modelled by   *)
(* the key of that object in the by-id map: the map never replaces or      *)
(* removes an object once it is set, so key and object identity coincide.  *)
(***************************************************************************)
EXTENDS Integers, Sequences, FiniteSets, TLC

VARIABLES
  \* ---- process-list parser (parseProcessListOutput and its loop) ----
  processInfoById,   \* Map<number, IProcessInfo>: id -> record
  mapOrder,          \* insertion order of the keys of processInfoById
  seenHeaders,       \* the loop's seenHeaders flag
  parseStatus,       \* "reading" | "returned" | "threw"
  lastLine,          \* the line most recently handed to parseProcessInfoEntry
  lineCount,         \* number of lines read so far
  \* ---- the host: platform, file system, ambient process state ----
  OS_PLATFORM,       \* os.platform(): "win32" | "linux"
  fileSystem,        \* existing path -> "exec" | "noexec" | "modeError"
  processEnv,        \* process.env: [PATH, PATHEXT, COMSPEC]
  processCwd,        \* process.cwd()
  \* ---- one call of tryResolve / spawn / spawnSync ----
  call,              \* [kind, filename, args, options] of the current call
  pc,                \* position of the call
  context,           \* IExecutableContext built by the call
  resolvedPath,      \* result of _tryResolve (undefined: <<>>)
  pathsToSearch,     \* _tryResolve's pathsToSearch, when it computed them
  commandLine,       \* result of _buildCommandLineFixup
  shellLookup,       \* how _buildCommandLineFixup located the shell
  primitiveCalls,    \* calls made to child_process.spawn / spawnSync
  error,             \* the Error thrown by the call, if any
  \* ---- listing the processes: the tool's run and the list operations ----
  toolRun,           \* the listing tool's run: [found, startFailure, status, stdout, stderr]
  syncResult,        \* listProcessInfoById(): [status, error, byId, order]
  byNameResult,      \* listProcessInfoByName(): [status, error, byName, order, source]
  asyncPc,           \* listProcessInfoByIdAsync(): "idle" | "running" | "resolved" | "rejected"
  asyncError,        \* the error listProcessInfoByIdAsync() rejected with
  childStatus,       \* the child: "none" | "running" | "failed" | "terminated"
  written,           \* number of lines of stdout the child has written
  pipe,              \* lines in the stdout pipe that were not read yet
  errorThrown,       \* listProcessInfoByIdAsync's errorThrown flag
  processFinishedPromise,  \* "pending" | "resolved" | "rejected"
  observed           \* notifications delivered: [error, exit]

parseVars == <<processInfoById, mapOrder, seenHeaders, parseStatus, lastLine, lineCount>>
hostVars == <<OS_PLATFORM, fileSystem, processEnv, processCwd>>
callVars == <<call, pc, context, resolvedPath, pathsToSearch, commandLine, shellLookup,
              primitiveCalls, error>>

listVars == <<toolRun, syncResult, byNameResult, asyncPc, asyncError, childStatus, written,
              pipe, errorThrown, processFinishedPromise, observed>>

vars == <<parseVars, hostVars, callVars, listVars>>

(***************************************************************************)
(* Bounds of the model                                                     *)
(***************************************************************************)
MaxPid == 2
MaxLines == 3
MaxPathEntries == 2
MaxArgs == 2
PipeCapacity == 1

(***************************************************************************)
(* Characters and strings                                                  *)
(***************************************************************************)
WhiteSpace == {" ", "\t"}
Digits == {"0", "1", "2", "3", "4", "5", "6", "7", "8", "9"}

UpperCaseLetters ==
  <<"A", "B", "C", "D", "E", "F", "G", "H", "I", "J", "K", "L", "M",
    "N", "O", "P", "Q", "R", "S", "T", "U", "V", "W", "X", "Y", "Z">>
LowerCaseLetters ==
  <<"a", "b", "c", "d", "e", "f", "g", "h", "i", "j", "k", "l", "m",
    "n", "o", "p", "q", "r", "s", "t", "u", "v", "w", "x", "y", "z">>
Range(seq) == {seq[i] : i \in DOMAIN seq}
Letters == Range(UpperCaseLetters) \cup Range(LowerCaseLetters)

DigitValue(c) ==
  CASE c = "0" -> 0 [] c = "1" -> 1 [] c = "2" -> 2 [] c = "3" -> 3 [] c = "4" -> 4
    [] c = "5" -> 5 [] c = "6" -> 6 [] c = "7" -> 7 [] c = "8" -> 8 [] c = "9" -> 9

DigitChar(n) ==
  CASE n = 0 -> "0" [] n = 1 -> "1" [] n = 2 -> "2" [] n = 3 -> "3" [] n = 4 -> "4"
    [] n = 5 -> "5" [] n = 6 -> "6" [] n = 7 -> "7" [] n = 8 -> "8" [] n = 9 -> "9"

Min(S) == CHOOSE x \in S : \A y \in S : x <= y
Max(S) == CHOOSE x \in S : \A y \in S : x >= y

\* The first index at or after i whose character is not in set (Len(s)+1 if none).
RunEnd(s, i, set) ==
  LET stops == {j \in i..Len(s) : s[j] \notin set}
  IN  IF stops = {} THEN Max({i, Len(s) + 1}) ELSE Min(stops)

\* parseInt(text, 10) on a string of decimal digits.
parseInt(s) ==
  LET value[k \in 0..Len(s)] ==
        IF k = 0 THEN 0 ELSE 10 * value[k - 1] + DigitValue(s[k])
  IN  value[Len(s)]

\* The decimal text the listing tool prints for a number.
DecimalText(n) ==
  LET text[k \in 0..n] ==
        IF k < 10 THEN <<DigitChar(k)>> ELSE text[k \div 10] \o <<DigitChar(k % 10)>>
  IN  text[n]

\* The first index at or after i whose character is in set (0 if none).
IndexIn(s, i, set) ==
  LET hits == {j \in i..Len(s) : s[j] \in set}
  IN  IF hits = {} THEN 0 ELSE Min(hits)

\* The last index at or before i whose character is in set (0 if none).
LastIndexIn(s, i, set) ==
  LET hits == {j \in 1..i : s[j] \in set}
  IN  IF hits = {} THEN 0 ELSE Max(hits)

\* String.prototype.split on any of the separator characters in set: the
\* pieces between consecutive separators, empty pieces included.
Split(s, set) ==
  LET cuts == {j \in 1..Len(s) : s[j] \in set}
      \* the position of the k-th separator; 0 before the first piece and
      \* Len(s) + 1 after the last
      Cut(k) == IF k = 0 THEN 0
                ELSE IF k > Cardinality(cuts) THEN Len(s) + 1
                ELSE CHOOSE j \in cuts : Cardinality({c \in cuts : c < j}) = k - 1
  IN  [k \in 1..(Cardinality(cuts) + 1) |-> SubSeq(s, Cut(k - 1) + 1, Cut(k) - 1)]

\* String.prototype.trim
Trim(s) ==
  LET a == RunEnd(s, 1, WhiteSpace)
      b == LastIndexIn(s, Len(s), Range(s) \ WhiteSpace)
  IN  IF a > Len(s) THEN <<>> ELSE SubSeq(s, a, b)

ToLowerChar(c) ==
  IF c \in Range(UpperCaseLetters)
  THEN LowerCaseLetters[CHOOSE i \in DOMAIN UpperCaseLetters : UpperCaseLetters[i] = c]
  ELSE c
ToUpperChar(c) ==
  IF c \in Range(LowerCaseLetters)
  THEN UpperCaseLetters[CHOOSE i \in DOMAIN LowerCaseLetters : LowerCaseLetters[i] = c]
  ELSE c
toLowerCase(s) == [i \in DOMAIN s |-> ToLowerChar(s[i])]
toUpperCase(s) == [i \in DOMAIN s |-> ToUpperChar(s[i])]

\* undefined, as the value of an optional string or object reference.
undefined == <<>>
Ref(id) == <<id>>
Deref(ref) == ref[1]

\* The strings of a sequence joined with sep between them.
JoinWith(parts, sep) ==
  LET joined[k \in 0..Len(parts)] ==
        IF k = 0 THEN <<>>
        ELSE IF k = 1 THEN parts[1]
        ELSE joined[k - 1] \o sep \o parts[k]
  IN  joined[Len(parts)]

(***************************************************************************)
(* The path module, for the platform of the host                           *)
(***************************************************************************)
IsWindows == OS_PLATFORM = "win32"

\* path.sep, path.delimiter and the characters path treats as separators.
PathSep == IF IsWindows THEN <<"\\">> ELSE <<"/">>
PathDelimiter == IF IsWindows THEN ";" ELSE ":"
Separators == IF IsWindows THEN {"/", "\\"} ELSE {"/"}

\* Dropping "" and "." segments and resolving ".." against what precedes:
\* kept[k] is what is kept of the first k segments.
NormalizeSegments(segs) ==
  LET kept[k \in 0..Len(segs)] ==
        IF k = 0 THEN <<>>
        ELSE IF segs[k] = <<>> \/ segs[k] = <<".">> THEN kept[k - 1]
        ELSE IF segs[k] = <<".", ".">>
             THEN IF kept[k - 1] = <<>> THEN <<>>
                  ELSE SubSeq(kept[k - 1], 1, Len(kept[k - 1]) - 1)
             ELSE Append(kept[k - 1], segs[k])
  IN  kept[Len(segs)]

\* The drive prefix of a Windows path ("C:"), or the empty string.
DriveOf(p) ==
  IF IsWindows /\ Len(p) >= 2 /\ p[1] \in Letters /\ p[2] = ":" THEN SubSeq(p, 1, 2) ELSE <<>>
AfterDrive(p) == SubSeq(p, Len(DriveOf(p)) + 1, Len(p))
IsRooted(p) == AfterDrive(p) # <<>> /\ AfterDrive(p)[1] \in Separators

\* path.resolve(from, to), where from is an absolute path.
pathResolve(from, to) ==
  LET drive == IF DriveOf(to) # <<>> THEN DriveOf(to) ELSE DriveOf(from)
      sameDrive == DriveOf(to) = <<>> \/ toLowerCase(DriveOf(to)) = toLowerCase(DriveOf(from))
      base == IF IsRooted(to) \/ ~sameDrive THEN <<>> ELSE Split(AfterDrive(from), Separators)
      segs == NormalizeSegments(base \o Split(AfterDrive(to), Separators))
  IN  drive \o PathSep \o JoinWith(segs, PathSep)

\* path.join(folder, name), where folder is an absolute path.
pathJoin(folder, name) ==
  IF name = <<>> THEN pathResolve(folder, <<>>)
  ELSE pathResolve(folder, AfterDrive(folder) \o PathSep \o name)

\* path.basename(p)
pathBasename(p) ==
  LET q == AfterDrive(p)
      i == LastIndexIn(q, Len(q), Separators)
  IN  SubSeq(q, i + 1, Len(q))

\* path.extname(p): from the last "." of the base name, unless that "." is
\* the first character of the base name or the base name is "..".
pathExtname(p) ==
  LET base == pathBasename(p)
      dot == LastIndexIn(base, Len(base), {"."})
  IN  IF dot <= 1 \/ base = <<".", ".">> THEN <<>> ELSE SubSeq(base, dot, Len(base))

(***************************************************************************)
(* The host: folders, files and environments the calls are run against     *)
(***************************************************************************)
Root == IF IsWindows THEN <<"C", ":", "\\">> ELSE <<"/">>
FolderA == Root \o <<"a">>
FolderB == Root \o <<"b">>
FolderW == Root \o <<"w">>
FolderWB == FolderW \o PathSep \o <<"b">>
FolderMissing == Root \o <<"c">>
Folders == {Root, FolderA, FolderB, FolderW, FolderWB}

InFolder(folder, name) == folder \o PathSep \o name

ExtExe == <<".", "e", "x", "e">>
ExtCmd == <<".", "c", "m", "d">>

\* The modes a file can have: on Windows the mode is never looked up.
FileModes == IF IsWindows THEN {"exec"} ELSE {"exec", "noexec", "modeError"}

\* Every file system that holds the folders and any of the files, each file
\* with any mode.
FileSystemsOver(files) ==
  {[path \in Folders \cup DOMAIN modes |->
      IF path \in Folders THEN "exec" ELSE modes[path]] :
     modes \in UNION {[present -> FileModes] : present \in SUBSET files}}

\* PATH values: up to MaxPathEntries entries joined by path.delimiter.
PathEntries == {FolderA, FolderB, <<"b">>, <<" ">> \o FolderA \o <<" ">>}
PathValuesOver(entries, n) ==
  {JoinWith(list, <<PathDelimiter>>) :
     list \in UNION {[1..k -> entries] : k \in 0..n}}
\* A PATH with a missing folder, an empty entry and a repeated folder.
RaggedPathValue ==
  JoinWith(<<FolderMissing, <<>>, FolderB \o PathSep, FolderB, FolderA>>, <<PathDelimiter>>)
SinglePathValues == PathValuesOver(PathEntries \cup {FolderMissing, <<>>}, 1)
PathValues ==
  SinglePathValues \cup PathValuesOver(PathEntries, MaxPathEntries) \cup {RaggedPathValue}

\* PATHEXT values (read on Windows only).
PathExtValues ==
  IF IsWindows
  THEN {<<".", "E", "X", "E", ";", ".", "C", "M", "D">>,
        <<" ", ".", "c", "m", "d", ";", ";", "x", ";", ".", "E", "X", "E", ";", ".", "c", "m", "d">>}
  ELSE {<<>>}

(***************************************************************************)
(* Executable: the resolution context                                      *)
(***************************************************************************)
\* EnvironmentMap.get(name) || '': every read in the code treats an unset
\* variable like an empty one, so an unset variable is the empty string.
EnvGet(env, name) ==
  CASE name = "PATH" -> env.PATH
    [] name = "PATHEXT" -> env.PATHEXT
    [] name = "COMSPEC" -> env.COMSPEC

\* options || {}
EmptyEnvironment == [PATH |-> <<>>, PATHEXT |-> <<>>, COMSPEC |-> <<>>]
NoOptions ==
  [currentWorkingDirectory |-> <<>>, envForm |-> "none",
   environment |-> EmptyEnvironment, environmentMap |-> EmptyEnvironment]

AlphaNumeric == Letters \cup Digits

\* /^\.[a-z0-9\.]*[a-z0-9]$/i
IsExtensionShaped(t) ==
  /\ Len(t) >= 2
  /\ t[1] = "."
  /\ t[Len(t)] \in AlphaNumeric
  /\ \A i \in 2..(Len(t) - 1) : t[i] \in AlphaNumeric \cup {"."}

\* The loop over pathExtVariable.split(';'): the extensions collected after
\* the first k tokens.
CollectExtensions(tokens) ==
  LET trimmed == [k \in DOMAIN tokens |-> toLowerCase(Trim(tokens[k]))]
      collected[k \in 0..Len(tokens)] ==
        IF k = 0 THEN <<>>
        ELSE IF IsExtensionShaped(trimmed[k]) /\ trimmed[k] \notin Range(collected[k - 1])
             THEN Append(collected[k - 1], trimmed[k])
             ELSE collected[k - 1]
  IN  collected[Len(tokens)]

\* _buildEnvironmentMap throws when both forms are given.
buildEnvironmentMapThrows(options) == options.envForm = "both"

\* _buildEnvironmentMap(options)
buildEnvironmentMap(options) ==
  IF options.envForm = "environment" THEN options.environment
  ELSE IF options.envForm = "environmentMap" THEN options.environmentMap
  ELSE processEnv

\* _getExecutableContext(options), when _buildEnvironmentMap does not throw.
getExecutableContext(options) ==
  LET environment == buildEnvironmentMap(options)
  IN  [environmentMap |-> environment,
       currentWorkingDirectory |->
         IF options.currentWorkingDirectory # <<>>
         THEN pathResolve(processCwd, options.currentWorkingDirectory)
         ELSE processCwd,
       windowsExecutableExtensions |->
         IF IsWindows
         THEN CollectExtensions(Split(EnvGet(environment, "PATHEXT"), {";"}))
         ELSE <<>>]

(***************************************************************************)
(* Executable: the path resolver                                           *)
(***************************************************************************)
\* FileSystem.exists(path)
FileSystemExists(path) == path \in DOMAIN fileSystem

\* (FileSystem.getPosixModeBits(path) & PosixModeBits.AllExecute) for an
\* existing path: "exec" (some bit set), "noexec" (none set), or the lookup
\* throws ("modeError").
PosixExecuteBits(path) == fileSystem[path]

\* _canExecute(filePath, context)
canExecute(filePath, ctx) ==
  IF ~FileSystemExists(filePath) THEN FALSE
  ELSE IF IsWindows
       THEN pathExtname(filePath) # <<>>
       ELSE \* try { if (bits === 0) return false } catch { } ... return true
            IF PosixExecuteBits(filePath) = "modeError" THEN TRUE
            ELSE PosixExecuteBits(filePath) # "noexec"

\* The loop of _getSearchFolders over pathList.split(path.delimiter): folders
\* and seenPaths after the first k entries.
CollectFolders(parts, ctx) ==
  LET trimmedPath == [k \in DOMAIN parts |-> Trim(parts[k])]
      resolvedPath_ == [k \in DOMAIN parts |->
                          pathResolve(ctx.currentWorkingDirectory, trimmedPath[k])]
      Turn(prev, k) ==
        IF trimmedPath[k] # <<>> /\ trimmedPath[k] \notin prev.seenPaths
        THEN [folders |->
                IF resolvedPath_[k] \notin prev.seenPaths
                     /\ FileSystemExists(resolvedPath_[k])
                THEN Append(prev.folders, resolvedPath_[k])
                ELSE prev.folders,
              seenPaths |-> prev.seenPaths \cup {resolvedPath_[k], trimmedPath[k]}]
        ELSE prev
      loop[k \in 0..Len(parts)] ==
        IF k = 0 THEN [folders |-> <<>>, seenPaths |-> {}]
        ELSE CHOOSE next \in {Turn(prev, k) : prev \in {loop[k - 1]}} : TRUE
  IN  loop[Len(parts)].folders

\* _getSearchFolders(context)
getSearchFolders(ctx) ==
  CollectFolders(Split(EnvGet(ctx.environmentMap, "PATH"), {PathDelimiter}), ctx)

\* The loop of _tryResolveFileExtension over the extensions: from[i] is what
\* the loop returns when it is at extension i.
TryExtensions(path, ctx) ==
  LET exts == ctx.windowsExecutableExtensions
      from[i \in 1..(Len(exts) + 1)] ==
        IF i > Len(exts) THEN undefined
        ELSE IF canExecute(path \o exts[i], ctx) THEN path \o exts[i]
        ELSE from[i + 1]
  IN  from[1]

\* _tryResolveFileExtension(resolvedPath, context)
tryResolveFileExtension(path, ctx) ==
  IF canExecute(path, ctx) THEN path ELSE TryExtensions(path, ctx)

\* The loop of _tryResolve over pathsToSearch: from[i] is what the loop
\* returns when it is at folder i.
SearchFolders(folders, filename, ctx) ==
  LET result == [i \in DOMAIN folders |->
                   tryResolveFileExtension(pathJoin(folders[i], filename), ctx)]
      from[i \in 1..(Len(folders) + 1)] ==
        IF i > Len(folders) THEN undefined
        ELSE IF result[i] # undefined THEN result[i]
        ELSE from[i + 1]
  IN  from[1]

\* hasPathSeparators that never finds a separator.
hasPathSeparators_Never(filename) == FALSE

\* hasPathSeparators
hasPathSeparators(filename) ==
  \/ IndexIn(filename, 1, {"/"}) > 0
  \/ (IsWindows /\ IndexIn(filename, 1, {"\\"}) > 0)

\* _tryResolve(filename, options, context): the result and, when the PATH
\* was searched, the folders that were searched.
tryResolve(filename, ctx) ==
  IF hasPathSeparators(filename)
  THEN [result |-> tryResolveFileExtension(
                     pathResolve(ctx.currentWorkingDirectory, filename), ctx),
        searched |-> FALSE,
        pathsToSearch |-> <<>>]
  ELSE CHOOSE searched \in
         {[result |-> SearchFolders(pathsToSearch_, filename, ctx),
           searched |-> TRUE,
           pathsToSearch |-> pathsToSearch_] :
            pathsToSearch_ \in {getSearchFolders(ctx)}} : TRUE

(***************************************************************************)
(* Executable: command-line fixup                                          *)
(***************************************************************************)
\* /[%\^&|<>\r\n]/g
SpecialChars == {"%", "^", "&", "|", "<", ">", "\r", "\n"}
\* /[%\^&|<> ]/g
EscapableChars == {"%", "^", "&", "|", "<", ">", " "}

\* _validateArgsForWindowsShell that accepts every argument.
validateArgsForWindowsShell_Accepts(args) == [thrown |-> FALSE]

\* _validateArgsForWindowsShell(args): the Error the loop throws (naming arg
\* and match[0]), or no error; from[i] is the outcome when the loop is at
\* argument i.
validateArgsForWindowsShell(args) ==
  LET match == [i \in DOMAIN args |-> IndexIn(args[i], 1, SpecialChars)]
      from[i \in 1..(Len(args) + 1)] ==
        IF i > Len(args) THEN [thrown |-> FALSE]
        ELSE IF match[i] > 0
             THEN [thrown |-> TRUE, kind |-> "cannot be escaped",
                   arg |-> args[i], char |-> args[i][match[i]]]
             ELSE from[i + 1]
  IN  from[1]

\* _getEscapedForWindowsShell(text)
getEscapedForWindowsShell(text) ==
  LET escaped[k \in 0..Len(text)] ==
        IF k = 0 THEN <<>>
        ELSE escaped[k - 1]
               \o (IF text[k] \in EscapableChars THEN <<"^", text[k]>> ELSE <<text[k]>>)
  IN  escaped[Len(text)]

CmdExe == <<"c", "m", "d", ".", "e", "x", "e">>

\* The context Executable.tryResolve('cmd.exe') resolves against: the call
\* passes no options, so _getExecutableContext(undefined) builds it from
\* process.env and process.cwd().
FallbackContext(ctx) == getExecutableContext(NoOptions)

\* let shellPath = context.environmentMap.get('COMSPEC'): whether it is kept.
ComspecUsable(ctx) ==
  /\ EnvGet(ctx.environmentMap, "COMSPEC") # <<>>
  /\ canExecute(EnvGet(ctx.environmentMap, "COMSPEC"), ctx)

\* The shell path chosen for a .bat/.cmd file, and how it was found.
LocateShell(ctx) ==
  IF ComspecUsable(ctx)
  THEN [shellPath |-> EnvGet(ctx.environmentMap, "COMSPEC"), via |-> "COMSPEC"]
  ELSE [shellPath |-> tryResolve(CmdExe, FallbackContext(ctx)).result, via |-> "tryResolve"]

\* _buildCommandLineFixup(resolvedPath, args, context): the command line, or
\* the Error thrown.
buildCommandLineFixup(path, args, ctx) ==
  LET fileExtension == toUpperCase(pathExtname(path))
      direct == [thrown |-> FALSE, path |-> path, args |-> args, via |-> "none"]
  IN  IF ~IsWindows THEN direct
      ELSE IF fileExtension \in {<<".", "E", "X", "E">>, <<".", "C", "O", "M">>} THEN direct
      ELSE IF fileExtension \in {<<".", "B", "A", "T">>, <<".", "C", "M", "D">>}
           THEN IF validateArgsForWindowsShell(args).thrown
                THEN validateArgsForWindowsShell(args)
                ELSE LET via == IF ComspecUsable(ctx) THEN "COMSPEC" ELSE "tryResolve"
                     IN  IF LocateShell(ctx).shellPath = undefined
                         THEN [thrown |-> TRUE, kind |-> "CMD.exe was not found",
                               via |-> via]
                         ELSE [thrown |-> FALSE,
                               path |-> LocateShell(ctx).shellPath,
                               args |-> <<<<"/", "d">>, <<"/", "s">>, <<"/", "c">>,
                                          getEscapedForWindowsShell(path)>> \o args,
                               via |-> via]
           ELSE [thrown |-> TRUE, kind |-> "file type is not supported"]

(***************************************************************************)
(* Executable.tryResolve, called on a host                                 *)
(***************************************************************************)
NoContext == [environmentMap |-> EmptyEnvironment, currentWorkingDirectory |-> <<>>,
              windowsExecutableExtensions |-> <<>>]
NoCall == [kind |-> "none", filename |-> <<>>, args |-> <<>>, options |-> NoOptions]
NoCommandLine == [path |-> <<>>, args |-> <<>>]
NoError == [kind |-> "none", detail |-> <<>>]

IdleParse ==
  /\ processInfoById = <<>>
  /\ mapOrder = <<>>
  /\ seenHeaders = FALSE
  /\ parseStatus = "idle"
  /\ lastLine = <<>>
  /\ lineCount = 0

\* The parser runs on text alone: the host plays no part in it.
IdleHost ==
  /\ OS_PLATFORM = "linux"
  /\ fileSystem = [path \in {<<"/">>} |-> "exec"]
  /\ processEnv = EmptyEnvironment
  /\ processCwd = <<"/">>

IdleCall ==
  /\ call = NoCall
  /\ pc = "idle"
  /\ context = NoContext
  /\ resolvedPath = undefined
  /\ pathsToSearch = [searched |-> FALSE, folders |-> <<>>]
  /\ commandLine = NoCommandLine
  /\ shellLookup = "none"
  /\ primitiveCalls = <<>>
  /\ error = NoError

NoToolRun == [found |-> FALSE, startFailure |-> FALSE, status |-> "null",
              stdout |-> <<>>, stderr |-> <<>>]
NoSyncResult == [status |-> "none", error |-> "none", byId |-> <<>>, order |-> <<>>]
NoByNameResult == [status |-> "none", error |-> "none", byName |-> <<>>, order |-> <<>>,
                   source |-> [byId |-> <<>>, order |-> <<>>]]
NoneObserved == [error |-> FALSE, exit |-> "none"]

IdleList ==
  /\ syncResult = NoSyncResult
  /\ byNameResult = NoByNameResult
  /\ asyncPc = "idle"
  /\ asyncError = "none"
  /\ childStatus = "none"
  /\ written = 0
  /\ pipe = <<>>
  /\ errorThrown = FALSE
  /\ processFinishedPromise = "pending"
  /\ observed = NoneObserved

\* No listing tool is run.
IdleTool ==
  /\ toolRun = NoToolRun
  /\ IdleList

\* The files of the hosts tryResolve is run on.
ResolveFiles ==
  IF IsWindows
  THEN {InFolder(FolderA, <<"t">> \o ExtExe),
        InFolder(FolderWB, <<"t">>),
        InFolder(FolderWB, <<"t">> \o ExtExe),
        InFolder(FolderWB, <<"t">> \o ExtCmd),
        InFolder(FolderWB, <<"t">> \o ExtExe \o ExtCmd)}
  ELSE {InFolder(FolderA, <<"t">>),
        InFolder(FolderB, <<"t">>),
        InFolder(FolderWB, <<"t">>)}

ResolveFilenames ==
  IF IsWindows
  THEN {<<"t">>, <<"b", "\\", "t">>, <<"b", "/", "t">> \o ExtExe}
  ELSE {<<"t">>, <<"b", "/", "t">>, FolderA \o <<"/", "t">>}

\* An environment a caller passes in the options.
CallerEnvironment ==
  [PATH |-> FolderB \o <<PathDelimiter>> \o FolderA,
   PATHEXT |-> IF IsWindows THEN ExtCmd ELSE <<>>,
   COMSPEC |-> <<>>]

ResolveOptions ==
  {NoOptions,
   [NoOptions EXCEPT !.currentWorkingDirectory = FolderA],
   [NoOptions EXCEPT !.envForm = "environment", !.environment = CallerEnvironment],
   [NoOptions EXCEPT !.envForm = "environmentMap", !.environmentMap = CallerEnvironment],
   [NoOptions EXCEPT !.envForm = "both", !.environment = CallerEnvironment,
                     !.environmentMap = CallerEnvironment]}

InitResolve ==
  /\ IdleParse
  /\ OS_PLATFORM \in {"win32", "linux"}
  /\ fileSystem \in FileSystemsOver(ResolveFiles)
  /\ processEnv \in [PATH : PathValues, PATHEXT : PathExtValues, COMSPEC : {<<>>}]
  /\ processCwd = FolderW
  /\ IdleCall
  /\ IdleTool

\* Executable.tryResolve(filename, options)
tryResolveCall(filename, options) ==
  /\ pc = "idle"
  /\ call' = [kind |-> "tryResolve", filename |-> filename, args |-> <<>>,
              options |-> options]
  /\ IF buildEnvironmentMapThrows(options)
     THEN /\ pc' = "threw"
          /\ error' = [kind |-> "cannot both be specified", detail |-> <<>>]
          /\ UNCHANGED <<context, resolvedPath, pathsToSearch>>
     ELSE \E ctx \in {getExecutableContext(options)} :
          \E r \in {tryResolve(filename, ctx)} :
              /\ pc' = "returned"
              /\ context' = ctx
              /\ resolvedPath' = r.result
              /\ pathsToSearch' = [searched |-> r.searched, folders |-> r.pathsToSearch]
              /\ error' = error
  /\ UNCHANGED <<commandLine, shellLookup, primitiveCalls>>
  /\ UNCHANGED <<parseVars, hostVars, listVars>>

NextResolve ==
  \E filename \in ResolveFilenames, options \in ResolveOptions :
    tryResolveCall(filename, options)

SpecResolve == InitResolve /\ [][NextResolve]_vars

(***************************************************************************)
(* Executable.spawn and Executable.spawnSync, called on a host             *)
(***************************************************************************)
ExtBatMixed == <<".", "B", "a", "t">>
ExtTxt == <<".", "t", "x", "t">>
PathExtDefault == IF IsWindows THEN <<".", "E", "X", "E", ";", ".", "C", "M", "D">> ELSE <<>>

\* The files of the hosts spawn is run on: a program, a batch script, a
\* text file, and cmd.exe in either folder or in none.
SpawnFixedFiles ==
  {InFolder(FolderA, <<"t">> \o ExtExe),
   InFolder(FolderA, <<"s">> \o ExtBatMixed),
   InFolder(FolderA, <<"d">> \o ExtTxt)}
SpawnShellFiles ==
  IF IsWindows THEN {InFolder(FolderA, CmdExe), InFolder(FolderB, CmdExe)} ELSE {}
SpawnFileSystems ==
  {[path \in Folders \cup SpawnFixedFiles \cup shells |-> "exec"] :
     shells \in SUBSET SpawnShellFiles}

SpawnFilenames ==
  {<<"t">>, <<"s">> \o ExtBatMixed, <<"d">> \o ExtTxt, <<"n", "o">>}

ArgValues == {<<"x">>, <<"a", "&", "b">>, <<"p", " ", "%", "^">>}
ArgLists == UNION {[1..k -> ArgValues] : k \in 0..MaxArgs}

SpawnCallerEnvironments ==
  {[PATH |-> FolderA, PATHEXT |-> PathExtDefault, COMSPEC |-> comspec] :
     comspec \in {<<>>, InFolder(FolderB, CmdExe), InFolder(FolderMissing, CmdExe)}}

SpawnOptions ==
  {NoOptions,
   [NoOptions EXCEPT !.currentWorkingDirectory = FolderA],
   [NoOptions EXCEPT !.envForm = "both"]}
  \cup {[NoOptions EXCEPT !.envForm = "environment", !.environment = env] :
          env \in SpawnCallerEnvironments}

InitSpawn ==
  /\ IdleParse
  /\ OS_PLATFORM \in {"win32", "linux"}
  /\ fileSystem \in SpawnFileSystems
  /\ processEnv \in [PATH : {FolderA, FolderB}, PATHEXT : {PathExtDefault}, COMSPEC : {<<>>}]
  /\ processCwd = FolderW
  /\ IdleCall
  /\ IdleTool

\* spawn(filename, args, options) / spawnSync(filename, args, options) is entered.
SpawnEnter(kind, filename, args, options) ==
  /\ pc = "idle"
  /\ call' = [kind |-> kind, filename |-> filename, args |-> args, options |-> options]
  /\ pc' = "context"
  /\ UNCHANGED <<context, resolvedPath, pathsToSearch, commandLine, shellLookup,
                 primitiveCalls, error>>
  /\ UNCHANGED <<parseVars, hostVars, listVars>>

\* const context = Executable._getExecutableContext(options)
SpawnGetExecutableContext ==
  /\ pc = "context"
  /\ IF buildEnvironmentMapThrows(call.options)
     THEN /\ pc' = "threw"
          /\ error' = [kind |-> "cannot both be specified", detail |-> <<>>]
          /\ UNCHANGED context
     ELSE /\ pc' = "resolve"
          /\ context' = getExecutableContext(call.options)
          /\ UNCHANGED error
  /\ UNCHANGED <<call, resolvedPath, pathsToSearch, commandLine, shellLookup, primitiveCalls>>
  /\ UNCHANGED <<parseVars, hostVars, listVars>>

\* The resolve step that goes on to the fixup when nothing was found.
SpawnTryResolve_NoNotFoundCheck ==
  /\ pc = "resolve"
  /\ \E r \in {tryResolve(call.filename, context)} :
         /\ resolvedPath' = r.result
         /\ pathsToSearch' = [searched |-> r.searched, folders |-> r.pathsToSearch]
         /\ pc' = "fixup"
         /\ UNCHANGED error
  /\ UNCHANGED <<call, context, commandLine, shellLookup, primitiveCalls>>
  /\ UNCHANGED <<parseVars, hostVars, listVars>>

\* const resolvedPath = Executable._tryResolve(filename, options, context);
\* if (!resolvedPath) throw new Error(`The executable file was not found: ...`)
SpawnTryResolve ==
  /\ pc = "resolve"
  /\ \E r \in {tryResolve(call.filename, context)} :
         /\ resolvedPath' = r.result
         /\ pathsToSearch' = [searched |-> r.searched, folders |-> r.pathsToSearch]
         /\ IF r.result = undefined
            THEN /\ pc' = "threw"
                 /\ error' = [kind |-> "The executable file was not found",
                              detail |-> <<call.filename>>]
            ELSE /\ pc' = "fixup"
                 /\ UNCHANGED error
  /\ UNCHANGED <<call, context, commandLine, shellLookup, primitiveCalls>>
  /\ UNCHANGED <<parseVars, hostVars, listVars>>

\* const normalizedCommandLine = Executable._buildCommandLineFixup(resolvedPath, args, context)
SpawnBuildCommandLineFixup ==
  /\ pc = "fixup"
  /\ \E f \in {buildCommandLineFixup(resolvedPath, call.args, context)} :
         IF f.thrown
         THEN /\ pc' = "threw"
              /\ error' = [kind |-> f.kind,
                           detail |-> IF f.kind = "cannot be escaped"
                                      THEN <<f.arg, <<f.char>>>>
                                      ELSE <<pathBasename(resolvedPath)>>]
              /\ shellLookup' = IF f.kind = "CMD.exe was not found" THEN f.via ELSE shellLookup
              /\ UNCHANGED commandLine
         ELSE /\ pc' = "primitive"
              /\ commandLine' = [path |-> f.path, args |-> f.args]
              /\ shellLookup' = f.via
              /\ UNCHANGED error
  /\ UNCHANGED <<call, context, resolvedPath, pathsToSearch, primitiveCalls>>
  /\ UNCHANGED <<parseVars, hostVars, listVars>>

\* return child_process.spawn / spawnSync(normalizedCommandLine.path,
\*                                        normalizedCommandLine.args, spawnOptions)
SpawnChildProcess ==
  /\ pc = "primitive"
  /\ primitiveCalls' = Append(primitiveCalls,
       [api |-> IF call.kind = "spawnSync" THEN "child_process.spawnSync"
                ELSE "child_process.spawn",
        path |-> commandLine.path,
        args |-> commandLine.args,
        cwd |-> context.currentWorkingDirectory,
        env |-> context.environmentMap,
        shell |-> FALSE])
  /\ pc' = "returned"
  /\ UNCHANGED <<call, context, resolvedPath, pathsToSearch, commandLine, shellLookup, error>>
  /\ UNCHANGED <<parseVars, hostVars, listVars>>

NextSpawn ==
  \/ \E kind \in {"spawn", "spawnSync"}, filename \in SpawnFilenames,
        args \in ArgLists, options \in SpawnOptions :
       SpawnEnter(kind, filename, args, options)
  \/ SpawnGetExecutableContext
  \/ SpawnTryResolve
  \/ SpawnBuildCommandLineFixup
  \/ SpawnChildProcess

SpecSpawn == InitSpawn /\ [][NextSpawn]_vars

(***************************************************************************)
(* Properties of Executable.tryResolve                                     *)
(***************************************************************************)
\* The filename contains a path separator of the platform.
ContainsSeparator(filename) ==
  \E i \in DOMAIN filename :
    filename[i] = "/" \/ (IsWindows /\ filename[i] = "\\")

\* A file is executable: it exists; on Windows it has some file extension;
\* elsewhere at least one POSIX execute bit is set, and a file whose
\* permission lookup fails is not executable.
IsExecutableFile(path) ==
  /\ path \in DOMAIN fileSystem
  /\ IF IsWindows THEN pathExtname(path) # <<>> ELSE fileSystem[path] = "exec"

\* What extension resolution of path p is to return: p if it is executable,
\* else p with the first extension of the list that makes it executable.
ExpectedExtensionResolution(p, ctx) ==
  LET exts == ctx.windowsExecutableExtensions
      hits == {i \in DOMAIN exts : IsExecutableFile(p \o exts[i])}
  IN  IF IsExecutableFile(p) THEN p
      ELSE IF hits = {} THEN undefined
      ELSE p \o exts[Min(hits)]

\* The PATH entries in listed order: trimmed, empty ones dropped, resolved
\* against the working directory, and existing.
ListedFolders(ctx) ==
  LET parts == Split(EnvGet(ctx.environmentMap, "PATH"), {PathDelimiter})
      trimmed == [i \in DOMAIN parts |-> Trim(parts[i])]
      NonEmpty(x) == x # <<>>
      named == SelectSeq(trimmed, NonEmpty)
      resolved == [i \in DOMAIN named |-> pathResolve(ctx.currentWorkingDirectory, named[i])]
  IN  SelectSeq(resolved, FileSystemExists)

\* C1: on a non-Windows platform an existing file whose permission lookup
\* fails is not executable, and resolve never returns such a path.
C1_LookupFailureNotExecutable ==
  (pc = "returned" /\ ~IsWindows) =>
    /\ \A path \in DOMAIN fileSystem :
         fileSystem[path] = "modeError" => ~canExecute(path, context)
    /\ resolvedPath # undefined => fileSystem[resolvedPath] # "modeError"

\* C4: for a filename that contains a path separator, resolve does not
\* compute the PATH folders; its result is the working-directory-resolved
\* path or that path with an extension of the list appended, and it is the
\* same for every value of PATH.
C4_QualifiedNeverSearchesPath ==
  (pc = "returned" /\ ContainsSeparator(call.filename)) =>
    LET p == pathResolve(context.currentWorkingDirectory, call.filename)
    IN  /\ ~pathsToSearch.searched
        /\ resolvedPath \in {undefined, p}
             \cup {p \o e : e \in Range(context.windowsExecutableExtensions)}
        /\ \A v \in SinglePathValues :
             tryResolve(call.filename, [context EXCEPT !.environmentMap.PATH = v]).result
               = resolvedPath

\* A path-qualified filename was resolved (with an extension appended, on
\* Windows with a backslash) while the PATH names a folder that holds an
\* executable file of the same base name.
C4_Witness ==
  /\ pc = "returned"
  /\ IsWindows
  /\ call.filename = <<"b", "\\", "t">>
  /\ resolvedPath = InFolder(FolderWB, <<"t">> \o ExtCmd)
  /\ InFolder(FolderA, <<"t">> \o ExtExe) \in DOMAIN fileSystem
  /\ EnvGet(context.environmentMap, "PATH") = FolderA

\* C5: for a bare filename, resolve returns the match of the earliest listed
\* existing PATH folder that holds an executable candidate (the file as named
\* or with an extension of the list appended), never one of a later folder,
\* and not-found only when no listed folder holds one.
C5_FirstListedFolderWins ==
  (pc = "returned" /\ ~ContainsSeparator(call.filename)) =>
    LET folders == ListedFolders(context)
        Match(i) == ExpectedExtensionResolution(pathJoin(folders[i], call.filename), context)
        hits == {i \in DOMAIN folders : Match(i) # undefined}
    IN  /\ pathsToSearch.searched
        /\ IF hits = {} THEN resolvedPath = undefined
           ELSE resolvedPath = Match(Min(hits))

\* C6: extension resolution of a path p returns p when p is executable, else
\* p with the first extension in list order that is executable, else
\* not-found as a normal value; with an empty list only p is ever returned.
C6_ExtensionResolutionOrder ==
  (pc = "returned" /\ ContainsSeparator(call.filename)) =>
    LET p == pathResolve(context.currentWorkingDirectory, call.filename)
        exts == context.windowsExecutableExtensions
        hits == {i \in DOMAIN exts : IsExecutableFile(p \o exts[i])}
    IN  /\ IsExecutableFile(p) => resolvedPath = p
        /\ (~IsExecutableFile(p) /\ hits # {}) => resolvedPath = p \o exts[Min(hits)]
        /\ (~IsExecutableFile(p) /\ hits = {}) =>
             (resolvedPath = undefined /\ error = NoError)
        /\ exts = <<>> => resolvedPath \in {p, undefined}

(***************************************************************************)
(* Properties of Executable.spawn and Executable.spawnSync                 *)
(***************************************************************************)
UpperExtension(path) == toUpperCase(pathExtname(path))
ExtensionsRunDirectly == {<<".", "E", "X", "E">>, <<".", "C", "O", "M">>}
ExtensionsRunByShell == {<<".", "B", "A", "T">>, <<".", "C", "M", "D">>}

\* The characters the claim names: % ^ & | < > CR LF.
DisallowedCharacters == {"%", "^", "&", "|", "<", ">", "\r", "\n"}
Offending(args) ==
  {i \in DOMAIN args : \E k \in DOMAIN args[i] : args[i][k] \in DisallowedCharacters}
FirstDisallowed(arg) ==
  arg[Min({k \in DOMAIN arg : arg[k] \in DisallowedCharacters})]

\* The call is past the fixup of a path it resolved.
FixupDone == pc \in {"primitive", "returned", "threw"} /\ resolvedPath # undefined

\* C7: on Windows the fixup of a resolved .bat/.cmd script with an argument
\* that contains one of % ^ & | < > CR LF fails with an error naming the first
\* offending argument and its first disallowed character; no command line is
\* produced, whether or not a command interpreter can be located.
C7_UnescapableArgumentFails ==
  (/\ FixupDone
   /\ IsWindows
   /\ UpperExtension(resolvedPath) \in ExtensionsRunByShell
   /\ Offending(call.args) # {}) =>
    LET arg == call.args[Min(Offending(call.args))]
    IN  /\ pc = "threw"
        /\ error.kind = "cannot be escaped"
        /\ error.detail = <<arg, <<FirstDisallowed(arg)>>>>
        /\ commandLine = NoCommandLine
        /\ primitiveCalls = <<>>

\* A script with a mixed-case extension was given two offending arguments
\* on a host where no command interpreter can be located; the error names the
\* first argument and the first of its two disallowed characters.
C7_Witness ==
  /\ pc = "threw"
  /\ IsWindows
  /\ pathExtname(resolvedPath) = ExtBatMixed
  /\ call.args = <<<<"p", " ", "%", "^">>, <<"a", "&", "b">>>>
  /\ error = [kind |-> "cannot be escaped", detail |-> <<<<"p", " ", "%", "^">>, <<"%">>>>]
  /\ ~ComspecUsable(context)
  /\ tryResolve(CmdExe, context).result = undefined
  /\ tryResolve(CmdExe, getExecutableContext(NoOptions)).result = undefined

\* C8: when the context's COMSPEC is unset or not executable, the command
\* interpreter is the result of resolving cmd.exe against the call's own
\* context (its environment and working directory), and the fixup fails when
\* that resolution finds nothing.
C8_InterpreterFromCallContext ==
  /\ (pc \in {"primitive", "returned"} /\ shellLookup = "tryResolve") =>
       commandLine.path = tryResolve(CmdExe, context).result
  /\ (pc = "threw" /\ error.kind = "CMD.exe was not found") =>
       tryResolve(CmdExe, context).result = undefined

\* What holds of the calls made to the process-creation primitive.
PrimitiveInvokedLast ==
  /\ Len(primitiveCalls) <= 1
  /\ pc = "threw" => primitiveCalls = <<>>
  /\ primitiveCalls # <<>> =>
       /\ pc = "returned"
       /\ resolvedPath # undefined
       /\ commandLine # NoCommandLine
       /\ primitiveCalls[1].path = commandLine.path
       /\ primitiveCalls[1].args = commandLine.args
       /\ primitiveCalls[1].cwd = context.currentWorkingDirectory
       /\ primitiveCalls[1].env = context.environmentMap
       /\ primitiveCalls[1].api = IF call.kind = "spawnSync" THEN "child_process.spawnSync"
                                  ELSE "child_process.spawn"
       /\ primitiveCalls[1].shell = FALSE

\* The order of the steps of a call, and how a failing step ends it.
StepsInOrder ==
  /\ primitiveCalls' # primitiveCalls =>
       (pc = "primitive" /\ pc' = "returned" /\ primitiveCalls = <<>>)
  /\ (pc' = "resolve" /\ pc # "resolve") => pc = "context"
  /\ (pc' = "fixup" /\ pc # "fixup") => (pc = "resolve" /\ resolvedPath' # undefined)
  /\ (pc' = "primitive" /\ pc # "primitive") =>
       /\ pc = "fixup"
       /\ commandLine'.path # undefined
       /\ IsWindows => UpperExtension(resolvedPath)
                         \in ExtensionsRunDirectly \cup ExtensionsRunByShell
  /\ (pc = "resolve" /\ pc' # pc /\ resolvedPath' = undefined) =>
       /\ pc' = "threw"
       /\ error' = [kind |-> "The executable file was not found",
                    detail |-> <<call.filename>>]
  /\ (pc = "fixup" /\ pc' # pc /\ pc' # "primitive") =>
       /\ pc' = "threw"
       /\ error'.kind \in {"file type is not supported", "cannot be escaped",
                           "CMD.exe was not found"}
       /\ commandLine' = NoCommandLine

\* C9: in both spawn variants the process-creation primitive is invoked at
\* most once per call and only after context building, resolution and fixup
\* have succeeded, in that order; a resolution that finds nothing fails the
\* call with an error naming the filename, a failing fixup fails the call, and
\* in both cases the primitive is not invoked; shell is never requested.
C9_PrimitiveAfterResolveAndFixup ==
  /\ []PrimitiveInvokedLast
  /\ [][StepsInOrder]_vars

\* spawnSync has invoked the primitive, once, with a script wrapped in the
\* command interpreter that the fixup located.
C9_Witness ==
  /\ pc = "returned"
  /\ call.kind = "spawnSync"
  /\ Len(primitiveCalls) = 1
  /\ IsWindows
  /\ UpperExtension(resolvedPath) \in ExtensionsRunByShell
  /\ primitiveCalls[1].path = InFolder(FolderB, CmdExe)
  /\ Len(primitiveCalls[1].args) = 5

(***************************************************************************)
(* PROCESS_LIST_ENTRY_REGEX                                                *)
(*   ^(?<name>.+?)\s+(?<ppid>\d+)\s+(?<pid>\d+)\s*$                        *)
(***************************************************************************)
\* The part after the name:  \s+ \d+ \s+ \d+ \s* $
EntryTail(s) ==
  LET a == RunEnd(s, 1, WhiteSpace)
      b == RunEnd(s, a, Digits)
      c == RunEnd(s, b, WhiteSpace)
      d == RunEnd(s, c, Digits)
      e == RunEnd(s, d, WhiteSpace)
  IN  [ok   |-> a > 1 /\ b > a /\ c > b /\ d > c /\ e = Len(s) + 1,
       ppid |-> SubSeq(s, a, b - 1),
       pid  |-> SubSeq(s, c, d - 1)]

\* The lengths k of a name for which the rest of the line matches the tail.
NameLengths(line) ==
  {k \in 1..(Len(line) - 1) : EntryTail(SubSeq(line, k + 1, Len(line))).ok}

\* line.match(PROCESS_LIST_ENTRY_REGEX): the name group is lazy, so the
\* shortest name for which the tail matches is the one captured.
MatchEntry(line) ==
  IF NameLengths(line) = {} THEN [matched |-> FALSE]
  ELSE LET k == CHOOSE n \in NameLengths(line) : \A m \in NameLengths(line) : n <= m
           t == EntryTail(SubSeq(line, k + 1, Len(line)))
       IN  [matched |-> TRUE, name |-> SubSeq(line, 1, k), ppid |-> t.ppid, pid |-> t.pid]

(***************************************************************************)
(* The listing tool's output                                               *)
(***************************************************************************)
Pids == 0..MaxPid
ProcessNames == {<<"a">>, <<"w", " ", "7">>}
HeaderLine == <<"N", " ", "P", " ", "I">>

\* A data line as the listing tool prints it: name, parent id, id.
FormatLine(name, ppid, pid) ==
  name \o <<" ", " ">> \o DecimalText(ppid) \o <<" ">> \o DecimalText(pid)

WellFormedLines == {FormatLine(n, pp, p) : n \in ProcessNames, pp \in Pids, p \in Pids}
MalformedLines == {<<"a">>, <<"a", " ", "1">>, <<" ", "1", " ", "2">>, <<"a", " ", "1", " ", "x">>}
OutputLines == WellFormedLines \cup MalformedLines \cup {<<>>}

\* const match = line.match(PROCESS_LIST_ENTRY_REGEX) with the two
\* parseInt(..., 10) of its groups, for each line of the output.
EntryOf ==
  [line \in OutputLines |->
     LET match == MatchEntry(line)
     IN  IF match.matched
         THEN [matched |-> TRUE,
               processName |-> match.name,
               processId |-> parseInt(match.pid),
               parentProcessId |-> parseInt(match.ppid)]
         ELSE [matched |-> FALSE]]

(***************************************************************************)
(* parseProcessInfoEntry                                                   *)
(***************************************************************************)

\* Map.set of a key that is not yet present (keeps insertion order).
MapSet(m, id, info) ==
  [byId |-> (id :> info) @@ m.byId, order |-> Append(m.order, id)]

\* LookupParent without the test that the parent id differs from the id.
LookupParent_NoSelfTest(m, processId, parentProcessId) ==
  IF parentProcessId \in DOMAIN m.byId
  THEN [map |-> m, ref |-> Ref(parentProcessId)]
  ELSE [map |-> MapSet(m, parentProcessId,
                       [processName |-> <<>>,
                        processId |-> parentProcessId,
                        parentProcessInfo |-> undefined,
                        childProcessInfos |-> <<>>]),
        ref |-> Ref(parentProcessId)]

\* LookupParent that creates no placeholder for a parent id without an entry.
LookupParent_NoPlaceholder(m, processId, parentProcessId) ==
  IF parentProcessId # processId /\ parentProcessId \in DOMAIN m.byId
  THEN [map |-> m, ref |-> Ref(parentProcessId)]
  ELSE [map |-> m, ref |-> undefined]

\* parentProcessInfo of the line: looked up or created as a placeholder.
\* m is the map, as [byId, order]; the result is the map and the reference.
LookupParent(m, processId, parentProcessId) ==
  IF parentProcessId # processId
  THEN IF parentProcessId \in DOMAIN m.byId
       THEN [map |-> m, ref |-> Ref(parentProcessId)]
       ELSE [map |-> MapSet(m, parentProcessId,
                            [processName |-> <<>>,
                             processId |-> parentProcessId,
                             parentProcessInfo |-> undefined,
                             childProcessInfos |-> <<>>]),
             ref |-> Ref(parentProcessId)]
  ELSE [map |-> m, ref |-> undefined]

\* UpsertProcess that sets a fresh record for an id that is already present,
\* instead of updating the existing one.
UpsertProcess_Replace(m, processName, processId, parentRef) ==
  [m EXCEPT !.byId = (processId :> [processName |-> processName,
                                     processId |-> processId,
                                     parentProcessInfo |-> parentRef,
                                     childProcessInfos |-> <<>>]) @@ m.byId,
            !.order = IF processId \in DOMAIN m.byId THEN m.order
                      ELSE Append(m.order, processId)]

\* processInfo of the line: created, or the existing entry updated in place.
UpsertProcess(m, processName, processId, parentRef) ==
  IF processId \notin DOMAIN m.byId
  THEN MapSet(m, processId,
              [processName |-> processName,
               processId |-> processId,
               parentProcessInfo |-> parentRef,
               childProcessInfos |-> <<>>])
  ELSE [m EXCEPT !.byId[processId].processName = processName,
                 !.byId[processId].parentProcessInfo = parentRef]

\* parentProcessInfo?.childProcessInfos.push(processInfo)
PushChild(m, parentRef, processId) ==
  IF parentRef # undefined
  THEN [m EXCEPT !.byId[Deref(parentRef)].childProcessInfos = Append(@, processId)]
  ELSE m

\* The map after parseProcessInfoEntry(line, m) for a matching line: the
\* parent is looked up or created, the process is created or updated, and the
\* process is pushed onto the parent's children.
parseProcessInfoEntry(line, m) ==
  LET Link(entry, p) ==
        PushChild(UpsertProcess(p.map, entry.processName, entry.processId, p.ref),
                  p.ref, entry.processId)
      Parse(entry) ==
        CHOOSE linked \in
          {Link(entry, p) :
             p \in {LookupParent(m, entry.processId, entry.parentProcessId)}} : TRUE
  IN  CHOOSE parsed \in {Parse(entry) : entry \in {EntryOf[line]}} : TRUE

(***************************************************************************)
(* parseProcessListOutput: the loop over the lines                         *)
(***************************************************************************)
InitParse ==
  /\ processInfoById = <<>>
  /\ mapOrder = <<>>
  /\ seenHeaders = FALSE
  /\ parseStatus = "reading"
  /\ lastLine = <<>>
  /\ lineCount = 0
  /\ IdleHost
  /\ IdleCall
  /\ IdleTool

\* Text.readLinesFromIterable(..., { skipEmptyLines: true }) drops an empty line.
SkipEmptyLine ==
  /\ parseStatus = "reading"
  /\ lineCount < MaxLines
  /\ lineCount' = lineCount + 1
  /\ UNCHANGED <<processInfoById, mapOrder, seenHeaders, parseStatus, lastLine>>
  /\ UNCHANGED <<hostVars, callVars, listVars>>

\* The first non-empty line is the header: it only sets seenHeaders.
ReadHeader ==
  /\ parseStatus = "reading"
  /\ ~seenHeaders
  /\ seenHeaders' = TRUE
  /\ UNCHANGED <<processInfoById, mapOrder, parseStatus, lastLine, lineCount>>
  /\ UNCHANGED <<hostVars, callVars, listVars>>

\* ReadEntry that skips a line that does not match instead of throwing.
ReadEntry_SkipsMalformed(line) ==
  /\ parseStatus = "reading"
  /\ seenHeaders
  /\ lineCount < MaxLines
  /\ line # <<>>
  /\ lineCount' = lineCount + 1
  /\ lastLine' = line
  /\ IF EntryOf[line].matched
     THEN \E m \in {parseProcessInfoEntry(line, [byId |-> processInfoById,
                                                        order |-> mapOrder])} :
              /\ processInfoById' = m.byId
              /\ mapOrder' = m.order
     ELSE UNCHANGED <<processInfoById, mapOrder>>
  /\ UNCHANGED <<seenHeaders, parseStatus>>
  /\ UNCHANGED <<hostVars, callVars, listVars>>

\* A later non-empty line is handed to parseProcessInfoEntry.
ReadEntry(line) ==
  /\ parseStatus = "reading"
  /\ seenHeaders
  /\ lineCount < MaxLines
  /\ line # <<>>
  /\ lineCount' = lineCount + 1
  /\ lastLine' = line
  /\ IF EntryOf[line].matched
     THEN \E m \in {parseProcessInfoEntry(line, [byId |-> processInfoById,
                                                        order |-> mapOrder])} :
              /\ processInfoById' = m.byId
              /\ mapOrder' = m.order
              /\ parseStatus' = parseStatus
     ELSE \* throw new InternalError(`Invalid process list entry: ${line}`)
          /\ parseStatus' = "threw"
          /\ UNCHANGED <<processInfoById, mapOrder>>
  /\ UNCHANGED seenHeaders
  /\ UNCHANGED <<hostVars, callVars, listVars>>

\* The iterable is exhausted: return processInfoById.
EndOfOutput ==
  /\ parseStatus = "reading"
  /\ parseStatus' = "returned"
  /\ UNCHANGED <<processInfoById, mapOrder, seenHeaders, lastLine, lineCount>>
  /\ UNCHANGED <<hostVars, callVars, listVars>>

NextParse ==
  \/ SkipEmptyLine
  \/ ReadHeader
  \/ \E line \in OutputLines : ReadEntry(line)
  \/ EndOfOutput

SpecParse == InitParse /\ [][NextParse]_vars

(***************************************************************************)
(* Listing the processes: listProcessInfoById, listProcessInfoByName       *)
(***************************************************************************)
\* A chunk of text is modelled by the lines it holds; null holds none.
NullChunk == <<>>

\* Text.readLinesFromIterable(output, { skipEmptyLines: true }): the lines of
\* the chunks, one chunk after the other, without the empty lines.
readLinesFromIterable(output) ==
  LET joined[k \in 0..Len(output)] ==
        IF k = 0 THEN <<>> ELSE joined[k - 1] \o output[k]
      NonEmptyLine(line) == line # <<>>
  IN  SelectSeq(joined[Len(output)], NonEmptyLine)

\* One turn of the loop of parseProcessListOutput: the header is skipped,
\* any later line is handed to parseProcessInfoEntry, which may throw.
ParseLine(loop, line) ==
  IF loop.status = "threw" THEN loop
  ELSE IF ~loop.seenHeaders THEN [loop EXCEPT !.seenHeaders = TRUE]
  ELSE IF EntryOf[line].matched
       THEN LET m == parseProcessInfoEntry(line, [byId |-> loop.byId, order |-> loop.order])
            IN  [loop EXCEPT !.byId = m.byId, !.order = m.order]
       ELSE [loop EXCEPT !.status = "threw"]

\* The loop of parseProcessListOutput over the lines.
ParseLines(lines) ==
  LET loop[k \in 0..Len(lines)] ==
        IF k = 0
        THEN [status |-> "reading", seenHeaders |-> FALSE, byId |-> <<>>, order |-> <<>>]
        ELSE CHOOSE next \in {ParseLine(prev, lines[k]) : prev \in {loop[k - 1]}} : TRUE
  IN  loop[Len(lines)]

\* parseProcessListOutput(output): the map it returns, or the throw of
\* parseProcessInfoEntry.
parseProcessListOutput(output) ==
  CHOOSE result \in
    {IF end.status = "threw"
     THEN [status |-> "threw", error |-> "Invalid process list entry",
           byId |-> <<>>, order |-> <<>>]
     ELSE [status |-> "returned", error |-> "none", byId |-> end.byId, order |-> end.order] :
       end \in {ParseLines(lines) : lines \in {readLinesFromIterable(output)}}} : TRUE

\* GroupByName that puts a node at the front of its group.
GroupByName_Prepend(loop, processInfo) ==
  IF processInfo.processName \in DOMAIN loop.byName
  THEN [loop EXCEPT !.byName[processInfo.processName] = <<processInfo.processId>> \o @]
  ELSE [byName |-> (processInfo.processName :> <<processInfo.processId>>) @@ loop.byName,
        order |-> Append(loop.order, processInfo.processName)]

\* One turn of the loop of convertToProcessInfoByNameMap.
GroupByName(loop, processInfo) ==
  IF processInfo.processName \in DOMAIN loop.byName
  THEN [loop EXCEPT !.byName[processInfo.processName] = Append(@, processInfo.processId)]
  ELSE [byName |-> (processInfo.processName :> <<processInfo.processId>>) @@ loop.byName,
        order |-> Append(loop.order, processInfo.processName)]

\* convertToProcessInfoByNameMap(processInfoById): the groups by name and the
\* insertion order of the names; a group lists its nodes by their ids.
convertToProcessInfoByNameMap(m) ==
  LET loop[k \in 0..Len(m.order)] ==
        IF k = 0 THEN [byName |-> <<>>, order |-> <<>>]
        ELSE CHOOSE next \in {GroupByName(prev, m.byId[m.order[k]]) : prev \in {loop[k - 1]}} :
               TRUE
  IN  loop[Len(m.order)]

\* What Executable.listProcessInfoById() does on a run of the listing tool.
listProcessInfoById(run) ==
  IF ~run.found
  THEN [NoSyncResult EXCEPT !.status = "threw", !.error = "The executable file was not found"]
  ELSE IF run.startFailure
  THEN [NoSyncResult EXCEPT !.status = "threw", !.error = "failed with error"]
  ELSE IF run.status # "0"
  THEN [NoSyncResult EXCEPT !.status = "threw", !.error = "exited with code"]
  ELSE \* processOutput.output is [null, stdout, stderr]
       parseProcessListOutput(<<NullChunk, run.stdout, run.stderr>>)

\* Executable.listProcessInfoById()
ListProcessInfoById ==
  /\ syncResult.status = "none"
  /\ syncResult' = listProcessInfoById(toolRun)
  /\ UNCHANGED <<toolRun, byNameResult, asyncPc, asyncError, childStatus, written, pipe,
                 errorThrown, processFinishedPromise, observed>>
  /\ UNCHANGED <<parseVars, hostVars, callVars>>

\* Executable.listProcessInfoByName()
ListProcessInfoByName ==
  /\ byNameResult.status = "none"
  /\ \E processInfoByIdMap \in {listProcessInfoById(toolRun)} :
       IF processInfoByIdMap.status = "threw"
       THEN byNameResult' = [NoByNameResult EXCEPT !.status = "threw",
                                                   !.error = processInfoByIdMap.error]
       ELSE \E m \in {[byId |-> processInfoByIdMap.byId,
                       order |-> processInfoByIdMap.order]} :
            \E byName \in {convertToProcessInfoByNameMap(m)} :
              byNameResult' = [status |-> "returned", error |-> "none",
                               byName |-> byName.byName, order |-> byName.order,
                               source |-> m]
  /\ UNCHANGED <<toolRun, syncResult, asyncPc, asyncError, childStatus, written, pipe,
                 errorThrown, processFinishedPromise, observed>>
  /\ UNCHANGED <<parseVars, hostVars, callVars>>

\* The listings the two operations are run on: a header and data lines. The
\* name of a line is "a"; one more line gives another name to process 1.
TreeLines ==
  {FormatLine(<<"a">>, pp, p) : pp \in Pids, p \in Pids}
    \cup {FormatLine(<<"w", " ", "7">>, 0, 1)}
TreeListings == UNION {[1..k -> TreeLines] : k \in 0..MaxLines}
TreeRuns ==
  {[found |-> TRUE, startFailure |-> FALSE, status |-> "0",
    stdout |-> <<HeaderLine>> \o data, stderr |-> <<>>] : data \in TreeListings}

InitTree ==
  /\ IdleParse
  /\ IdleHost
  /\ IdleCall
  /\ toolRun \in TreeRuns
  /\ IdleList

NextTree ==
  \/ ListProcessInfoById
  \/ ListProcessInfoByName

SpecTree == InitTree /\ [][NextTree]_vars

(***************************************************************************)
(* listProcessInfoByIdAsync: the child, its stdout pipe, the two handlers  *)
(* and the loop of parseProcessListOutputAsync                             *)
(*                                                                         *)
(* The child writes the lines of toolRun.stdout into a pipe that holds at  *)
(* most PipeCapacity lines and blocks while the pipe is full; it can       *)
(* terminate once it has written every line, or once the reading end of    *)
(* the pipe was destroyed (the for-await loop was left by a throw).        *)
(* Promise.all and the await of line 507 are part of the step that settles *)
(* one of the two promises: the first rejection rejects the operation, the *)
(* second fulfilment resolves it.                                          *)
(***************************************************************************)
ExitCodes == {"0", "1", "null"}
FailureCodes == ExitCodes \ {"0"}
Settled == {"resolved", "rejected"}

\* The reader that is started only after processFinishedPromise was resolved.
ReaderRunning_AfterExit == parseStatus = "reading" /\ processFinishedPromise = "resolved"

\* parseProcessListOutputAsync(process.stdout) is called while the array given
\* to Promise.all is built: the loop reads from the start of the operation on,
\* whatever the state of processFinishedPromise.
ReaderRunning == parseStatus = "reading"

\* The call up to the await: getProcessListProcessOptions, Executable.spawn
\* (which throws when the tool is not found), the two handlers, the start of
\* parseProcessListOutputAsync. With stdio[1] = 'pipe', process.stdout is set.
AsyncStart ==
  /\ asyncPc = "idle"
  /\ IF ~toolRun.found
     THEN /\ asyncPc' = "rejected"
          /\ asyncError' = "The executable file was not found"
          /\ UNCHANGED <<childStatus, parseStatus>>
     ELSE /\ asyncPc' = "running"
          /\ childStatus' = IF toolRun.startFailure THEN "failed" ELSE "running"
          /\ parseStatus' = "reading"
          /\ UNCHANGED asyncError
  /\ UNCHANGED <<processInfoById, mapOrder, seenHeaders, lastLine, lineCount>>
  /\ UNCHANGED <<toolRun, syncResult, byNameResult, written, pipe, errorThrown,
                 processFinishedPromise, observed>>
  /\ UNCHANGED <<hostVars, callVars>>

\* The child writes its next line; it blocks while the pipe is full.
ChildWrite ==
  /\ childStatus = "running"
  /\ parseStatus # "threw"
  /\ written < Len(toolRun.stdout)
  /\ Len(pipe) < PipeCapacity
  /\ pipe' = Append(pipe, toolRun.stdout[written + 1])
  /\ written' = written + 1
  /\ UNCHANGED <<toolRun, syncResult, byNameResult, asyncPc, asyncError, childStatus,
                 errorThrown, processFinishedPromise, observed>>
  /\ UNCHANGED <<parseVars, hostVars, callVars>>

\* The child terminates: after its last line, or on a write to a pipe whose
\* reading end is gone.
ChildTerminates ==
  /\ childStatus = "running"
  /\ written = Len(toolRun.stdout) \/ parseStatus = "threw"
  /\ childStatus' = "terminated"
  /\ UNCHANGED <<toolRun, syncResult, byNameResult, asyncPc, asyncError, written, pipe,
                 errorThrown, processFinishedPromise, observed>>
  /\ UNCHANGED <<parseVars, hostVars, callVars>>

\* process.on('error', ...): the child could not be started.
OnError ==
  /\ childStatus = "failed"
  /\ ~observed.error
  /\ observed' = [observed EXCEPT !.error = TRUE]
  /\ errorThrown' = TRUE
  /\ processFinishedPromise' = "rejected"
  /\ IF asyncPc = "running"
     THEN asyncPc' = "rejected" /\ asyncError' = "failed with error"
     ELSE UNCHANGED <<asyncPc, asyncError>>
  /\ UNCHANGED <<toolRun, syncResult, byNameResult, childStatus, written, pipe>>
  /\ UNCHANGED <<parseVars, hostVars, callVars>>

\* The body of process.on('exit', ...) for an exit code.
ExitHandler(code) ==
  /\ observed' = [observed EXCEPT !.exit = code]
  /\ UNCHANGED errorThrown
  /\ IF errorThrown
     THEN \* We've already rejected the promise
          UNCHANGED <<processFinishedPromise, asyncPc, asyncError>>
     ELSE IF code # "0"
     THEN /\ processFinishedPromise' = "rejected"
          /\ IF asyncPc = "running"
             THEN asyncPc' = "rejected" /\ asyncError' = "exited with code"
             ELSE UNCHANGED <<asyncPc, asyncError>>
     ELSE /\ processFinishedPromise' = "resolved"
          /\ asyncPc' = IF asyncPc = "running" /\ parseStatus = "returned"
                        THEN "resolved" ELSE asyncPc
          /\ UNCHANGED asyncError

\* 'exit' of a child that terminated: with the tool's exit status when it
\* wrote all its output, with a failure code when its pipe was broken.
OnExit ==
  /\ childStatus = "terminated"
  /\ childStatus' = "exited"
  /\ \E code \in (IF written = Len(toolRun.stdout) THEN {toolRun.status} ELSE FailureCodes) :
       ExitHandler(code)
  /\ UNCHANGED <<toolRun, syncResult, byNameResult, written, pipe>>
  /\ UNCHANGED <<parseVars, hostVars, callVars>>

\* "The 'exit' event may or may not fire after an error has occurred."
OnExitAfterError ==
  /\ childStatus = "failed"
  /\ observed.error
  /\ observed.exit = "none"
  /\ \E code \in FailureCodes : ExitHandler(code)
  /\ UNCHANGED <<toolRun, syncResult, byNameResult, childStatus, written, pipe>>
  /\ UNCHANGED <<parseVars, hostVars, callVars>>

\* One turn of the for-await loop of parseProcessListOutputAsync: an empty
\* line is dropped, the first other line is the header, any later line is
\* handed to parseProcessInfoEntry, whose throw rejects the parser's promise.
AsyncReadLine ==
  /\ ReaderRunning
  /\ pipe # <<>>
  /\ pipe' = Tail(pipe)
  /\ \E line \in {Head(pipe)} :
       IF line = <<>>
       THEN /\ lineCount' = lineCount + 1
            /\ UNCHANGED <<processInfoById, mapOrder, seenHeaders, parseStatus, lastLine,
                           asyncPc, asyncError>>
       ELSE IF ~seenHeaders
       THEN /\ seenHeaders' = TRUE
            /\ UNCHANGED <<processInfoById, mapOrder, parseStatus, lastLine, lineCount,
                           asyncPc, asyncError>>
       ELSE /\ lineCount' = lineCount + 1
            /\ lastLine' = line
            /\ UNCHANGED seenHeaders
            /\ IF EntryOf[line].matched
               THEN \E m \in {parseProcessInfoEntry(line, [byId |-> processInfoById,
                                                                  order |-> mapOrder])} :
                        /\ processInfoById' = m.byId
                        /\ mapOrder' = m.order
                        /\ UNCHANGED <<parseStatus, asyncPc, asyncError>>
               ELSE /\ parseStatus' = "threw"
                    /\ UNCHANGED <<processInfoById, mapOrder>>
                    /\ IF asyncPc = "running"
                       THEN asyncPc' = "rejected" /\ asyncError' = "Invalid process list entry"
                       ELSE UNCHANGED <<asyncPc, asyncError>>
  /\ UNCHANGED <<toolRun, syncResult, byNameResult, childStatus, written, errorThrown,
                 processFinishedPromise, observed>>
  /\ UNCHANGED <<hostVars, callVars>>

\* The stream ends once the child is gone and the pipe is drained: the loop
\* is left and parseProcessListOutputAsync returns processInfoById.
AsyncReadEnd ==
  /\ ReaderRunning
  /\ pipe = <<>>
  /\ childStatus \in {"failed", "terminated", "exited"}
  /\ parseStatus' = "returned"
  /\ asyncPc' = IF asyncPc = "running" /\ processFinishedPromise = "resolved"
                THEN "resolved" ELSE asyncPc
  /\ UNCHANGED <<processInfoById, mapOrder, seenHeaders, lastLine, lineCount>>
  /\ UNCHANGED <<toolRun, syncResult, byNameResult, asyncError, childStatus, written, pipe,
                 errorThrown, processFinishedPromise, observed>>
  /\ UNCHANGED <<hostVars, callVars>>

\* The data lines the child may write: two well-formed lines, a line that is
\* not an entry, an empty line.
AsyncLines ==
  {FormatLine(<<"a">>, 0, 1), FormatLine(<<"a">>, 1, 2), <<"a", " ", "1">>, <<>>}
AsyncListings == UNION {[1..k -> AsyncLines] : k \in 0..MaxLines}
ErrorOutputs == {<<>>, <<FormatLine(<<"a">>, 0, 2)>>, <<<<"a", " ", "1">>>>}

\* The runs of the tool: it is not found, it cannot be started, or it writes
\* a header and data lines and exits.
ToolRuns(errorOutputs) ==
  {NoToolRun, [NoToolRun EXCEPT !.found = TRUE, !.startFailure = TRUE]}
    \cup {[found |-> TRUE, startFailure |-> FALSE, status |-> code,
           stdout |-> <<HeaderLine>> \o data, stderr |-> err] :
            code \in ExitCodes, data \in AsyncListings, err \in errorOutputs}

InitAsync ==
  /\ IdleParse
  /\ IdleHost
  /\ IdleCall
  /\ toolRun \in ToolRuns({<<>>})
  /\ IdleList

NextAsync ==
  \/ AsyncStart
  \/ ChildWrite
  \/ ChildTerminates
  \/ OnError
  \/ OnExit
  \/ OnExitAfterError
  \/ AsyncReadLine
  \/ AsyncReadEnd

SpecAsync == InitAsync /\ [][NextAsync]_vars

\* The event loop runs every handler whose event is pending, the for-await
\* loop goes on while the stream has a line or its end to deliver, and the
\* operating system runs the child; an 'exit' after an 'error' is not owed.
FairAsync ==
  /\ WF_vars(AsyncStart)
  /\ WF_vars(ChildWrite)
  /\ WF_vars(ChildTerminates)
  /\ WF_vars(OnError)
  /\ WF_vars(OnExit)
  /\ WF_vars(AsyncReadLine)
  /\ WF_vars(AsyncReadEnd)

SpecAsyncFair == SpecAsync /\ FairAsync

\* Both variants on the same run of the tool, whatever it wrote to stderr.
InitList ==
  /\ IdleParse
  /\ IdleHost
  /\ IdleCall
  /\ toolRun \in ToolRuns(ErrorOutputs)
  /\ IdleList

NextList ==
  \/ NextAsync
  \/ ListProcessInfoById

SpecList == InitList /\ [][NextList]_vars

(***************************************************************************)
(* Properties of the parsed map                                            *)
(***************************************************************************)
Occurrences(x, seq) == Cardinality({i \in DOMAIN seq : seq[i] = x})

ParsedEntry(line) == EntryOf[line]

IsSelfParented(line) ==
  /\ ParsedEntry(line).matched
  /\ ParsedEntry(line).processId = ParsedEntry(line).parentProcessId

\* Following parent references from n for at most k steps reaches a node
\* whose parent reference is absent.
ReachesRoot(n, k) ==
  LET \* the reference reached from n after j steps along parent references
      reached[j \in 0..k] ==
        IF j = 0 THEN Ref(n)
        ELSE IF reached[j - 1] = undefined THEN undefined
        ELSE processInfoById[Deref(reached[j - 1])].parentProcessInfo
  IN  \E j \in 0..k : reached[j] = undefined

\* C2: every node with a defined parent reference occurs exactly once in that
\* parent's child list and in no other node's child list, after any sequence
\* of well-formed data lines.
C2_ChildListedExactlyOnce ==
  parseStatus # "threw" =>
    \A n \in DOMAIN processInfoById :
      processInfoById[n].parentProcessInfo # undefined =>
        \A m \in DOMAIN processInfoById :
          Occurrences(n, processInfoById[m].childProcessInfos)
            = IF m = Deref(processInfoById[n].parentProcessInfo) THEN 1 ELSE 0

\* C3: the parent references form a forest: following parent references from
\* any node never returns to it, so every node reaches a root.
C3_ParentsFormForest ==
  parseStatus # "threw" =>
    \A n \in DOMAIN processInfoById :
      ReachesRoot(n, Cardinality(DOMAIN processInfoById))

\* No node is contained in its own child list.
NoSelfChild ==
  \A n \in DOMAIN processInfoById :
    Occurrences(n, processInfoById[n].childProcessInfos) = 0

\* What parsing a self-parented line does to the map.
SelfParentedStep(line) ==
  LET p == ParsedEntry(line).processId
  IN  /\ p \in DOMAIN processInfoById'
      /\ processInfoById'[p].parentProcessInfo = undefined
      /\ DOMAIN processInfoById' = DOMAIN processInfoById \cup {p}
      /\ \A m \in DOMAIN processInfoById :
           processInfoById'[m].childProcessInfos = processInfoById[m].childProcessInfos
      /\ p \notin DOMAIN processInfoById => processInfoById'[p].childProcessInfos = <<>>

\* C10: parsing a line whose parent id equals its process id leaves the node
\* without a parent reference (also when it existed before), creates no
\* placeholder and appends to no child list; and no node is ever contained in
\* its own child list.
C10_SelfParentSuppressed ==
  /\ []NoSelfChild
  /\ [][\A line \in OutputLines :
          (line = lastLine' /\ IsSelfParented(line) /\ ReadEntry(line))
            => SelfParentedStep(line)]_vars

\* A self-parented line has just completed a node that existed before the
\* line (it already has children, which a new node never has).
C10_Witness ==
  /\ parseStatus = "reading"
  /\ IsSelfParented(lastLine)
  /\ LET p == ParsedEntry(lastLine).processId
     IN  /\ p \in DOMAIN processInfoById
         /\ processInfoById[p].childProcessInfos # <<>>
         /\ processInfoById[p].processName # <<>>

\* What parsing a data line does to the records of the map.
PlaceholderStep(line) ==
  LET entry == ParsedEntry(line)
      p == entry.processId
      pp == entry.parentProcessId
  IN  \* a parent id without an entry gets a placeholder, and the child is linked to it
      /\ (pp # p /\ pp \notin DOMAIN processInfoById) =>
           /\ pp \in DOMAIN processInfoById'
           /\ processInfoById'[pp] = [processName |-> <<>>,
                                      processId |-> pp,
                                      parentProcessInfo |-> undefined,
                                      childProcessInfos |-> <<p>>]
           /\ processInfoById'[p].parentProcessInfo = Ref(pp)
      \* the line of an id that has an entry completes that entry in place
      /\ p \in DOMAIN processInfoById =>
           /\ processInfoById'[p].processName = entry.processName
           /\ processInfoById'[p].processId = p
           /\ processInfoById'[p].parentProcessInfo = IF pp = p THEN undefined ELSE Ref(pp)
           /\ processInfoById'[p].childProcessInfos = processInfoById[p].childProcessInfos
           /\ \A c \in DOMAIN processInfoById \ {p} :
                processInfoById[c].parentProcessInfo = Ref(p) =>
                  processInfoById'[c].parentProcessInfo = Ref(p)
           /\ mapOrder' \in {mapOrder, Append(mapOrder, pp)}
      \* every other id keeps its name and parent, and a new one is a placeholder root
      /\ \A n \in DOMAIN processInfoById' \ {p} :
           IF n \in DOMAIN processInfoById
           THEN /\ processInfoById'[n].processName = processInfoById[n].processName
                /\ processInfoById'[n].parentProcessInfo = processInfoById[n].parentProcessInfo
           ELSE /\ processInfoById'[n].processName = <<>>
                /\ processInfoById'[n].parentProcessInfo = undefined

\* A node with an empty name is a root.
EmptyNameIsRoot ==
  \A n \in DOMAIN processInfoById :
    processInfoById[n].processName = <<>> => processInfoById[n].parentProcessInfo = undefined

\* C11: a data line that names a parent id without an entry creates a
\* placeholder (empty name, no parent, no other children) and links the child
\* to it; the later line of that id completes the same record in place,
\* keeping its children, which still refer to it; an id that never gets a line
\* of its own stays a root with an empty name.
C11_PlaceholderCompletedInPlace ==
  /\ []EmptyNameIsRoot
  /\ [][\A line \in OutputLines :
          (line = lastLine' /\ ParsedEntry(line).matched /\ ReadEntry(line))
            => PlaceholderStep(line)]_vars

\* The last line completed a placeholder that a child had created; the
\* parent it names got a placeholder of its own, which never got a line.
C11_Witness ==
  /\ parseStatus = "returned"
  /\ ParsedEntry(lastLine).matched
  /\ LET p == ParsedEntry(lastLine).processId
         pp == ParsedEntry(lastLine).parentProcessId
     IN  /\ pp # p
         /\ mapOrder[1] = p
         /\ Len(mapOrder) = 3
         /\ processInfoById[p].processName # <<>>
         /\ processInfoById[p].childProcessInfos = <<mapOrder[2]>>
         /\ processInfoById[mapOrder[2]].parentProcessInfo = Ref(p)
         /\ processInfoById[p].parentProcessInfo = Ref(pp)
         /\ processInfoById[pp].processName = <<>>
         /\ processInfoById[pp].parentProcessInfo = undefined

\* The line is a name followed by whitespace, the parent id, whitespace and
\* the id, as the last two whitespace-delimited integer fields.
IsEntryShaped(line) ==
  LET n == Len(line)
      AllIn(from, to, set) == \A k \in from..(to - 1) : line[k] \in set
  IN  \E a \in 2..n : \E b \in (a + 1)..n : \E c \in (b + 1)..n :
      \E d \in (c + 1)..n : \E e \in (d + 1)..(n + 1) :
        /\ AllIn(a, b, WhiteSpace)
        /\ AllIn(b, c, Digits)
        /\ AllIn(c, d, WhiteSpace)
        /\ AllIn(d, e, Digits)
        /\ AllIn(e, n + 1, WhiteSpace)

\* C12: a non-empty line after the header that does not match the entry
\* pattern makes parsing fail with an internal error; no map is returned and
\* the line creates or modifies no node.
C12_MalformedLineFails ==
  /\ [][\A line \in OutputLines :
          (line = lastLine' /\ ~IsEntryShaped(line) /\ ReadEntry(line))
            => (parseStatus' = "threw" /\ processInfoById' = processInfoById
                /\ mapOrder' = mapOrder)]_vars
  /\ [][parseStatus = "threw" =>
          (parseStatus' = "threw" /\ processInfoById' = processInfoById)]_vars
  /\ [][(lineCount' = lineCount + 1 /\ lastLine' # <<>> /\ seenHeaders
           /\ ~IsEntryShaped(lastLine')) => parseStatus' # "reading"]_vars

\* Parsing failed on a line that lacks the trailing numeric field, after
\* earlier lines had populated the map.
C12_Witness ==
  /\ parseStatus = "threw"
  /\ lastLine = <<"a", " ", "1">>
  /\ ~IsEntryShaped(lastLine)
  /\ Cardinality(DOMAIN processInfoById) >= 2

(***************************************************************************)
(* Properties of listProcessInfoById and listProcessInfoByName             *)
(***************************************************************************)
\* The data lines of the listing: the lines after the header.
DataLines == Tail(toolRun.stdout)
PidOf(line) == ParsedEntry(line).processId
ParentPidOf(line) == ParsedEntry(line).parentProcessId

\* The position of x in a sequence without repetitions (0 if absent).
PositionIn(x, seq) == IF \E i \in DOMAIN seq : seq[i] = x
                      THEN CHOOSE i \in DOMAIN seq : seq[i] = x ELSE 0

\* The first data line of process id n.
FirstLineOf(n) == Min({k \in DOMAIN DataLines : PidOf(DataLines[k]) = n})
HasLine(n) == \E k \in DOMAIN DataLines : PidOf(DataLines[k]) = n

\* Every node of the by-id map is in the group of its name exactly once
\* and in no other group, and the groups hold nothing else.
GroupsPartitionNodes ==
  LET m == byNameResult.source
      byName == byNameResult.byName
  IN  /\ \A n \in DOMAIN m.byId :
           /\ m.byId[n].processName \in DOMAIN byName
           /\ \A name \in DOMAIN byName :
                Occurrences(n, byName[name])
                  = IF name = m.byId[n].processName THEN 1 ELSE 0
      /\ \A name \in DOMAIN byName : Range(byName[name]) \subseteq DOMAIN m.byId
      /\ \A n \in DOMAIN m.byId :
           (~HasLine(n)) => m.byId[n].processName = <<>>

FirstMention(n) ==
  Min({2 * k - 1 : k \in {k \in DOMAIN DataLines :
                            /\ ParentPidOf(DataLines[k]) = n
                            /\ PidOf(DataLines[k]) # n}}
      \cup {2 * k : k \in {k \in DOMAIN DataLines : PidOf(DataLines[k]) = n}})

DistinctPids(lines) ==
  \A i, j \in DOMAIN lines : PidOf(lines[i]) = PidOf(lines[j]) => i = j

\* Two by-id maps have the same ids, and the same name, parent and set of
\* children for each id.
SameTree(r1, r2) ==
  /\ r1.status = r2.status
  /\ DOMAIN r1.byId = DOMAIN r2.byId
  /\ \A n \in DOMAIN r1.byId :
       /\ r1.byId[n].processName = r2.byId[n].processName
       /\ r1.byId[n].parentProcessInfo = r2.byId[n].parentProcessInfo
       /\ Range(r1.byId[n].childProcessInfos) = Range(r2.byId[n].childProcessInfos)

\* C17: for data lines with pairwise distinct process ids the parsed map
\* does not depend on the order of the lines: every permutation gives the
\* same ids (the listed ids and the referenced parent ids) and the same name,
\* parent and set of children for each id.
C17_LineOrderIrrelevant ==
  (syncResult.status = "returned" /\ DistinctPids(DataLines)) =>
    /\ DOMAIN syncResult.byId
         = {PidOf(DataLines[k]) : k \in DOMAIN DataLines}
             \cup {ParentPidOf(DataLines[k]) : k \in DOMAIN DataLines}
    /\ \A pi \in Permutations(DOMAIN DataLines) :
         SameTree(syncResult,
                  parseProcessListOutput(
                    <<<<HeaderLine>>, [k \in DOMAIN DataLines |-> DataLines[pi[k]]]>>))

\* Three lines with distinct ids: the first two are children of the third,
\* whose own line comes last and is self-parented.
C17_Witness ==
  /\ syncResult.status = "returned"
  /\ Len(DataLines) = 3
  /\ DistinctPids(DataLines)
  /\ ParentPidOf(DataLines[1]) = PidOf(DataLines[3])
  /\ ParentPidOf(DataLines[2]) = PidOf(DataLines[3])
  /\ ParentPidOf(DataLines[3]) = PidOf(DataLines[3])
  /\ syncResult.byId[PidOf(DataLines[3])].childProcessInfos
       = <<PidOf(DataLines[1]), PidOf(DataLines[2])>>
  /\ syncResult.byId[PidOf(DataLines[3])].processName # <<>>

(***************************************************************************)
(* Properties of listProcessInfoByIdAsync                                  *)
(***************************************************************************)
ToolFailures == {"failed with error", "exited with code"}

\* C14: in every interleaving of the child's output, the end of the output,
\* the start-failure notification and the exit notification, the operation
\* resolves only after the output was read to its end and parsed without
\* error and the exit with code 0 was observed; it rejects with a
\* tool-failure error if a start failure or an exit code other than 0 is
\* observed; an exit that follows a start failure changes nothing.
C14_SettlesOnBothPromises ==
  /\ asyncPc = "resolved" =>
       /\ parseStatus = "returned"
       /\ pipe = <<>>
       /\ written = Len(toolRun.stdout)
       /\ observed.exit = "0"
       /\ ~observed.error
  /\ (observed.error \/ observed.exit \in FailureCodes) =>
       /\ asyncPc = "rejected"
       /\ asyncError \in ToolFailures
  /\ (observed.error /\ observed.exit # "none") =>
       /\ asyncError = "failed with error"
       /\ processFinishedPromise = "rejected"

\* C15: the operation does not deadlock on buffered output: the output is
\* read from the start of the operation on, without waiting for the exit
\* notification, so under fair scheduling a child that blocks on a full pipe
\* and exits only after its last line does exit, and the operation settles.
C15_NoDeadlockOnBufferedOutput ==
  /\ [](asyncPc = "running" => parseStatus \in {"reading", "returned"})
  /\ (asyncPc = "running") ~> (asyncPc \in Settled)
  /\ (childStatus = "running") ~> (childStatus = "exited")

\* An output longer than the pipe was written and read to its end, the child
\* exited and the operation resolved.
C15_Witness ==
  /\ Len(toolRun.stdout) > PipeCapacity + 1
  /\ written = Len(toolRun.stdout)
  /\ childStatus = "exited"
  /\ parseStatus = "returned"
  /\ asyncPc = "resolved"

\* C16: on the same run of the tool with exit code 0, the blocking and the
\* non-blocking variant return the same by-id map, whatever the tool wrote
\* to its error stream: only the standard output is parsed.
C16_VariantsAgree ==
  /\ (asyncPc = "resolved" /\ syncResult.status # "none") =>
       /\ syncResult.status = "returned"
       /\ syncResult.byId = processInfoById
  /\ (syncResult.status = "returned" /\ asyncPc \in Settled) =>
       /\ asyncPc = "resolved"
       /\ parseStatus = "returned" => syncResult.byId = processInfoById

====
